---- MODULE Spec2Model ----
(***************************************************************************)
(* stream-loader.py: the ingestion pipeline.                               *)
(*                                                                         *)
(*   do_stdin / do_url : source -> enricher -> jsonlines_queue ->          *)
(*                       output workers -> g2_engine.addRecord             *)
(*   do_kafka          : poll -> enrich -> addRecord -> commit             *)
(*                                                                         *)
(* Tasks are gevent greenlets: a step of the model is the code a greenlet  *)
(* runs between two points where it can be switched out (gevent.sleep,     *)
(* a blocking Queue.put / Queue.get, consumer.poll, Greenlet.kill,         *)
(* gevent.joinall).                                                        *)
(***************************************************************************)
EXTENDS Integers, Sequences, FiniteSets, TLC

\* ------------------------------------------------------------------------
\* Bounds of the model (not program constants).
\* ------------------------------------------------------------------------

MaxLines == 2
MaxInputWorkers == 2
MaxOutputWorkers == 2
MaxQueueSize == 2
MaxMessages == 2
MaxCrashes == 1
MaxPool == 10
MaxTime == 120
MaxBacklog == 5

\* ------------------------------------------------------------------------
\* Text and JSON.  A string is modelled by what the program can observe of
\* it: whether it is empty, JSON or something else, the key/value pairs of
\* a JSON object in the order they are written, and whether it ends with a
\* newline.
\* ------------------------------------------------------------------------

None == "null"

KeyOrder == <<"DATA_SOURCE", "ENTITY_TYPE", "NAME", "RECORD_ID">>

Text(fmt, obj, eol) == [fmt |-> fmt, obj |-> obj, eol |-> eol]

\* '' : what readline() returns at end of input.
EmptyString == Text("empty", <<>>, FALSE)

\* Python truthiness of a string: "if line:".
Truthy(s) == s # EmptyString

\* str.strip(): drops the surrounding whitespace, here the trailing newline.
strip(s) == [s EXCEPT !.eol = FALSE]

\* json.loads() raises ValueError on anything that is not JSON.
json_loads_raises(s) == s.fmt # "json"

\* json.loads() of a JSON object: the dict of its pairs.
json_loads(s) ==
    [k \in {s.obj[i][1] : i \in 1..Len(s.obj)} |->
        LET i == CHOOSE j \in 1..Len(s.obj) : s.obj[j][1] = k IN s.obj[i][2]]

\* json.dumps(d, sort_keys=True): pairs in key order, no trailing newline.
json_dumps(d) ==
    LET ks == SelectSeq(KeyOrder, LAMBDA k : k \in DOMAIN d)
    IN Text("json", [i \in 1..Len(ks) |-> <<ks[i], d[ks[i]]>>], FALSE)

\* d[key] = value, adding the key when it is missing.
DictSet(d, key, value) ==
    [k \in DOMAIN d \cup {key} |-> IF k = key THEN value ELSE d[k]]

\* ------------------------------------------------------------------------
\* The lines an input can hold.  Line number n carries RECORD_ID n.
\* ------------------------------------------------------------------------

RecordId(n) == ToString(n)

LineFull(n) == Text("json", <<<<"DATA_SOURCE", "S">>, <<"RECORD_ID", RecordId(n)>>>>, TRUE)
LineNoDataSource(n) == Text("json", <<<<"RECORD_ID", RecordId(n)>>, <<"NAME", "x">>>>, TRUE)
LineNoRecordId(n) == Text("json", <<<<"DATA_SOURCE", "S">>>>, TRUE)
LineJunk == Text("junk", <<>>, TRUE)

LinesAt(n) == {LineFull(n), LineNoDataSource(n), LineNoRecordId(n), LineJunk}

\* ------------------------------------------------------------------------
\* Line Enricher: create_output_line_function_factory.
\* Each result_function_N is given as the string it puts in the queue and
\* the condition under which it raises instead.
\* ------------------------------------------------------------------------

\* result_function_1 that parses the line and writes it again.
result_function_1_Normalised(line) == json_dumps(json_loads(line))

result_function_1(line) == strip(line)

\* result_function_2 that sets DATA_SOURCE whether the line has one or not.
result_function_2_Overwrites(line, data_source) ==
    json_dumps(DictSet(json_loads(line), "DATA_SOURCE", data_source))

result_function_2(line, data_source) ==
    LET line_dictionary == json_loads(line)
    IN json_dumps(IF "DATA_SOURCE" \notin DOMAIN line_dictionary
                  THEN DictSet(line_dictionary, "DATA_SOURCE", data_source)
                  ELSE line_dictionary)

result_function_3(line, entity_type) ==
    LET line_dictionary == json_loads(line)
    IN json_dumps(IF "ENTITY_TYPE" \notin DOMAIN line_dictionary
                  THEN DictSet(line_dictionary, "ENTITY_TYPE", entity_type)
                  ELSE line_dictionary)

result_function_4(line, data_source, entity_type) ==
    LET line_dictionary == json_loads(line)
        d1 == IF "DATA_SOURCE" \notin DOMAIN line_dictionary
              THEN DictSet(line_dictionary, "DATA_SOURCE", data_source)
              ELSE line_dictionary
        d2 == IF "ENTITY_TYPE" \notin DOMAIN d1
              THEN DictSet(d1, "ENTITY_TYPE", entity_type)
              ELSE d1
    IN json_dumps(d2)

\* The factory with the two single-default functions exchanged.
create_output_line_function_factory_Exchanged(cfg) ==
    IF cfg.data_source # None /\ cfg.entity_type # None THEN 4
    ELSE IF cfg.entity_type # None THEN 2
    ELSE IF cfg.data_source # None THEN 3
    ELSE 1

\* Which of the four functions the factory returns.
create_output_line_function_factory(cfg) ==
    IF cfg.data_source # None /\ cfg.entity_type # None THEN 4
    ELSE IF cfg.entity_type # None THEN 3
    ELSE IF cfg.data_source # None THEN 2
    ELSE 1

\* The call output_line_function(line) raises ValueError (json.loads).
output_line_function_raises(cfg, line) ==
    /\ create_output_line_function_factory(cfg) # 1
    /\ json_loads_raises(line)

\* The string output_line_function(line) puts in jsonlines_queue.
output_line_function(cfg, line) ==
    CASE create_output_line_function_factory(cfg) = 1 -> result_function_1(line)
      [] create_output_line_function_factory(cfg) = 2 -> result_function_2(line, cfg.data_source)
      [] create_output_line_function_factory(cfg) = 3 -> result_function_3(line, cfg.entity_type)
      [] OTHER -> result_function_4(line, cfg.data_source, cfg.entity_type)

\* ------------------------------------------------------------------------
\* send_jsonline_to_g2_engine: what it does before the call of addRecord.
\* ------------------------------------------------------------------------

\* json.loads raises ValueError, or a required key is missing (KeyError).
send_jsonline_raises(jsonline) ==
    \/ json_loads_raises(jsonline)
    \/ "DATA_SOURCE" \notin DOMAIN json_loads(jsonline)
    \/ "RECORD_ID" \notin DOMAIN json_loads(jsonline)

\* The outcomes of g2_engine.addRecord that send_jsonline_to_g2_engine
\* handles: success, TranslateG2ModuleException, G2ModuleException.
AddRecordResults == {"ok", "TranslateG2ModuleException", "G2ModuleException"}

\* The except clauses around addRecord: the exceptions that are logged and
\* not raised to the caller.
addRecord_caught_NoEngineClause(result) ==
    result \in {"TranslateG2ModuleException"}

addRecord_caught(result) ==
    result \in {"TranslateG2ModuleException", "G2ModuleException", "G2ModuleGenericException"}

\* ------------------------------------------------------------------------
\* State.
\* ------------------------------------------------------------------------

\* ------------------------------------------------------------------------
\* The choice of the input source: create_input_lines_function_factory.
\* A URL is modelled by what urlparse looks at: the text before the first
\* ':' (the whole text if there is none), whether there is a ':', and the
\* rest.
\* ------------------------------------------------------------------------

Url(head, colon, tail) == [none |-> FALSE, head |-> head, colon |-> colon, tail |-> tail]

\* config.get('input_url') when no input URL is configured: None.
UrlNone == [none |-> TRUE, head |-> "", colon |-> FALSE, tail |-> ""]

\* The texts made only of the characters urlparse accepts in a scheme
\* (letters, digits, '+', '-', '.').
SchemeTexts == {"http", "HTTP", "https", "file", "File", "ftp", "s3", "kafka", "C"}

\* The other texts that can stand before the first ':'.
PathTexts == {"", "/tmp/in", "in dir/f"}

\* str.lower()
lower(text) ==
    CASE text = "HTTP" -> "http"
      [] text = "File" -> "file"
      [] text = "C" -> "c"
      [] OTHER -> text

\* urlparse(input_url).scheme: the text before the first ':' in lower case
\* if it is not empty and has only scheme characters, else ''.
urlparse_scheme(input_url) ==
    IF input_url.colon /\ input_url.head # "" /\ input_url.head \in SchemeTexts
    THEN lower(input_url.head)
    ELSE ""

\* "if not input_url": None or the empty string.
NoInputUrl(input_url) == input_url = UrlNone \/ input_url = Url("", FALSE, "")

\* The factory with input_lines_from_file as the result of last resort.
create_input_lines_function_factory_Fallback(cfg) ==
    IF NoInputUrl(cfg.input_url) THEN "input_lines_from_stdin"
    ELSE IF urlparse_scheme(cfg.input_url) \in {"http", "https"} THEN "input_lines_from_url"
    ELSE "input_lines_from_file"

create_input_lines_function_factory(cfg) ==
    IF NoInputUrl(cfg.input_url) THEN "input_lines_from_stdin"
    ELSE IF urlparse_scheme(cfg.input_url) \in {"http", "https"} THEN "input_lines_from_url"
    ELSE IF urlparse_scheme(cfg.input_url) \in {"file", ""} THEN "input_lines_from_file"
    ELSE None

VARIABLES
    config,                     \* the resolved configuration (read-only)
    counter_queued_records,     \* config['counter_queued_records']
    counter_processed_records,  \* config['counter_processed_records']
    counter_bad_records,        \* config['counter_bad_records']
    jsonlines_queue,            \* gevent.queue.Queue: sequence of entries
    input,                      \* the lines read from the input so far
    input_closed,               \* readline() has returned '' (end of input)
    reader_pc,                  \* input worker -> position
    reader_line,                \* input worker -> the line it has in hand
    worker_pc,                  \* output worker -> position
    worker_jsonline,            \* output worker -> the entry it has dequeued
    sink_calls,                 \* the calls of g2_engine.addRecord, in order
    driver_pc,                  \* do_stdin / do_url / do_kafka position
    read_from_worker,           \* do_stdin: index of the kill loop
    monitor_pc,                 \* worker_monitor: "running" or "killed"
    last_processed_records,     \* worker_monitor local
    last_queued_records,        \* worker_monitor local
    kafka_log,                  \* kafka worker -> messages of its partition
    kafka_position,             \* kafka worker -> consumer position
    kafka_committed,            \* kafka worker -> committed offset
    kafka_pc,                   \* kafka worker -> position
    kafka_message,              \* kafka worker -> message being processed
    crashes,                    \* times the process was killed and started again
    input_lines_function,       \* do_url: what the factory returned
    now,                        \* the reading of time.time()
    last_time,                  \* worker_monitor local
    monitor_log                 \* worker_monitor: the last report it logged

queue_vars == <<jsonlines_queue, input, input_closed, reader_pc, reader_line,
                worker_pc, worker_jsonline>>
counter_vars == <<counter_queued_records, counter_processed_records, counter_bad_records>>
monitor_vars == <<monitor_pc, last_processed_records, last_queued_records>>
kafka_vars == <<kafka_log, kafka_position, kafka_committed, kafka_pc, kafka_message>>
driver_vars == <<driver_pc, read_from_worker>>
clock_vars == <<now, last_time, monitor_log>>
vars == <<config, counter_vars, queue_vars, sink_calls, driver_vars, monitor_vars, kafka_vars,
          crashes, input_lines_function, clock_vars>>

\* A line together with its number in the input (0: no line).
Entry(jsonline, n) == [jsonline |-> jsonline, line |-> n]
NoEntry == Entry(EmptyString, 0)

\* do_stdin spawns number_of_input_workers readers, do_url one reader;
\* both spawn number_of_output_workers output workers; do_kafka spawns
\* number_of_input_workers kafka workers and nothing else.  do_test reads
\* the input in its own task (reader 1) and spawns one log worker for each
\* i of xrange(1, number_of_output_workers).
Readers ==
    IF config.subcommand = "stdin" THEN 1..config.number_of_input_workers
    ELSE IF config.subcommand \in {"url", "test"} THEN {1}
    ELSE {}

Workers ==
    IF config.subcommand \in {"stdin", "url"} THEN 1..config.number_of_output_workers
    ELSE IF config.subcommand = "test" THEN 1..(config.number_of_output_workers - 1)
    ELSE {}

KafkaWorkers ==
    IF config.subcommand = "kafka" THEN 1..config.number_of_input_workers
    ELSE {}

\* The local kafka_message / kafka_message_string of worker_read_from_kafka:
\* what the last poll returned, and the string made of it (line: its offset).
KafkaMessage(kind, string, offset) == [kind |-> kind, jsonline |-> string, line |-> offset]

Configurations ==
    {c \in [subcommand : {"stdin", "url", "kafka"},
            input_url : {UrlNone, Url("file", TRUE, "///tmp/in.json")},
            data_source : {None, "D"},
            entity_type : {None, "E"},
            number_of_input_workers : 1..MaxInputWorkers,
            number_of_output_workers : 1..MaxOutputWorkers,
            queue_maxsize : 1..MaxQueueSize] :
        \* settings a subcommand does not read are left at one value
        /\ c.subcommand = "url" => c.number_of_input_workers = 1
        /\ c.subcommand = "url" <=> c.input_url # UrlNone
        /\ c.subcommand = "kafka" => c.number_of_output_workers = 1 /\ c.queue_maxsize = 1}

\* config['start_time'] = time.time() of entry_template: the clock of the
\* model starts there.
start_time == 0

\* Nothing logged yet by worker_monitor.
NoReport == [logged |-> FALSE]

\* The state of every greenlet and object once the driver has spawned its
\* greenlets, for the configuration in config.
InitPipeline ==
    /\ counter_queued_records = 0
    /\ counter_processed_records = 0
    /\ counter_bad_records = 0
    /\ jsonlines_queue = <<>>
    /\ input = <<>>
    /\ input_closed = FALSE
    /\ reader_pc = [p \in Readers |->
           IF config.subcommand \in {"stdin", "test"} THEN "read" ELSE "start"]
    /\ reader_line = [p \in Readers |-> NoEntry]
    /\ worker_pc = [w \in Workers |-> "get"]
    /\ worker_jsonline = [w \in Workers |-> NoEntry]
    /\ sink_calls = <<>>
    /\ driver_pc = IF config.subcommand = "test" THEN "input" ELSE "joinall"
    /\ read_from_worker = 0
    /\ monitor_pc = "running"
    /\ last_processed_records = 0
    /\ last_queued_records = 0
    /\ kafka_log = [k \in KafkaWorkers |-> <<>>]
    /\ kafka_position = [k \in KafkaWorkers |-> 0]
    /\ kafka_committed = [k \in KafkaWorkers |-> 0]
    /\ kafka_pc = [k \in KafkaWorkers |-> "poll"]
    /\ kafka_message = [k \in KafkaWorkers |-> KafkaMessage("start", EmptyString, 0)]
    /\ crashes = 0
    /\ now = start_time
    /\ last_time = start_time
    /\ monitor_log = NoReport

\* do_stdin and do_kafka do not call the factory; do_url has called it.
InitOf(subcommands) ==
    /\ config \in {c \in Configurations : c.subcommand \in subcommands}
    /\ input_lines_function = IF config.subcommand = "url"
                              THEN create_input_lines_function_factory(config)
                              ELSE "unset"
    /\ InitPipeline

\* ------------------------------------------------------------------------
\* Input workers.
\* ------------------------------------------------------------------------

\* A file of MaxBacklog well-formed lines, longer than the queue and the
\* output workers can hold.
LongFile == Url("file", TRUE, "///tmp/long.json")

\* The number of lines of the input, and what its n-th line can be.
InputLength == IF config.input_url = LongFile THEN MaxBacklog ELSE MaxLines

InputLinesAt(n) == IF config.input_url = LongFile THEN {LineFull(n)} ELSE LinesAt(n)

\* What one readline() can return: '' at end of input, else the next line.
ReadLine ==
    {EmptyString} \cup
    (IF ~input_closed /\ Len(input) < InputLength THEN InputLinesAt(Len(input) + 1) ELSE {})

\* The effect of that readline() on the input.
Consume(line) ==
    /\ input' = IF Truthy(line) THEN Append(input, line) ELSE input
    /\ input_closed' = (input_closed \/ ~Truthy(line))

\* The line number of the line readline() has just returned.
LineNumber(line) == IF Truthy(line) THEN Len(input) + 1 ELSE 0

\* jsonlines_queue.put(item) blocks while the queue holds maxsize items.
QueueFull_OffByOne == Len(jsonlines_queue) > config.queue_maxsize

QueueFull == Len(jsonlines_queue) >= config.queue_maxsize

\* jsonlines_queue.get(): the oldest item, which leaves the queue.
QueueGet_Newest(queue) ==
    [item |-> queue[Len(queue)], rest |-> SubSeq(queue, 1, Len(queue) - 1)]

QueueGet_Peek(queue) == [item |-> Head(queue), rest |-> queue]

QueueGet(queue) == [item |-> Head(queue), rest |-> Tail(queue)]

\* input_lines_from_stdin, one iteration: readline, count, then either
\* output_line_function(line) or the end of the loop.
StdinIteration(p) ==
    /\ config.subcommand = "stdin"
    /\ reader_pc[p] = "read"
    /\ \E line \in ReadLine :
        /\ Consume(line)
        /\ counter_queued_records' = counter_queued_records + 1
        /\ IF ~Truthy(line)
           THEN /\ reader_pc' = [reader_pc EXCEPT ![p] = "done"]
                /\ UNCHANGED <<jsonlines_queue, reader_line>>
           ELSE IF output_line_function_raises(config, line)
           THEN /\ reader_pc' = [reader_pc EXCEPT ![p] = "failed"]
                /\ reader_line' = [reader_line EXCEPT ![p] = Entry(line, LineNumber(line))]
                /\ UNCHANGED jsonlines_queue
           ELSE IF QueueFull
           THEN /\ reader_pc' = [reader_pc EXCEPT ![p] = "put"]
                /\ reader_line' = [reader_line EXCEPT ![p] =
                       Entry(output_line_function(config, line), LineNumber(line))]
                /\ UNCHANGED jsonlines_queue
           ELSE /\ jsonlines_queue' = Append(jsonlines_queue,
                       Entry(output_line_function(config, line), LineNumber(line)))
                /\ UNCHANGED <<reader_pc, reader_line>>
    /\ UNCHANGED <<config, input_lines_function, crashes, clock_vars, counter_processed_records, counter_bad_records,
                   worker_pc, worker_jsonline, sink_calls, driver_vars,
                   monitor_vars, kafka_vars>>


\* The file and URL readers go on to the next readline() once the line is
\* in the queue: "line = input_file.readline()", "for line in data".
ReadNext(p) ==
    \E line \in ReadLine :
        /\ Consume(line)
        /\ reader_line' = [reader_line EXCEPT ![p] = Entry(line, LineNumber(line))]
        /\ reader_pc' = [reader_pc EXCEPT ![p] = IF Truthy(line) THEN "yield" ELSE "done"]

\* input_lines_from_file / input_lines_from_url up to the first
\* gevent.sleep(0): the first readline().
FileStart(p) ==
    /\ config.subcommand = "url"
    /\ reader_pc[p] = "start"
    /\ ReadNext(p)
    /\ UNCHANGED <<config, input_lines_function, crashes, clock_vars, counter_vars, jsonlines_queue, worker_pc, worker_jsonline,
                   sink_calls, driver_vars, monitor_vars, kafka_vars>>

\* input_lines_from_file / input_lines_from_url, one iteration after
\* gevent.sleep(0): count, output_line_function(line), next readline().
FileIteration(p) ==
    /\ config.subcommand = "url"
    /\ reader_pc[p] = "yield"
    /\ counter_queued_records' = counter_queued_records + 1
    /\ LET line == reader_line[p].jsonline
           n == reader_line[p].line
       IN IF output_line_function_raises(config, line)
          THEN /\ reader_pc' = [reader_pc EXCEPT ![p] = "failed"]
               /\ UNCHANGED <<jsonlines_queue, reader_line, input, input_closed>>
          ELSE IF QueueFull
          THEN /\ reader_pc' = [reader_pc EXCEPT ![p] = "put"]
               /\ reader_line' = [reader_line EXCEPT ![p] =
                      Entry(output_line_function(config, line), n)]
               /\ UNCHANGED <<jsonlines_queue, input, input_closed>>
          ELSE /\ jsonlines_queue' = Append(jsonlines_queue,
                      Entry(output_line_function(config, line), n))
               /\ ReadNext(p)
    /\ UNCHANGED <<config, input_lines_function, crashes, clock_vars, counter_processed_records, counter_bad_records,
                   worker_pc, worker_jsonline, sink_calls, driver_vars,
                   monitor_vars, kafka_vars>>

\* A reader suspended in jsonlines_queue.put() resumes once there is room.
PutResumes(p) ==
    /\ reader_pc[p] = "put"
    /\ ~QueueFull
    /\ jsonlines_queue' = Append(jsonlines_queue, reader_line[p])
    /\ IF config.subcommand \in {"stdin", "test"}
       THEN /\ reader_pc' = [reader_pc EXCEPT ![p] = "read"]
            /\ reader_line' = [reader_line EXCEPT ![p] = NoEntry]
            /\ UNCHANGED <<input, input_closed>>
       ELSE ReadNext(p)
    /\ UNCHANGED <<config, input_lines_function, crashes, clock_vars, counter_vars, worker_pc, worker_jsonline,
                   sink_calls, driver_vars, monitor_vars, kafka_vars>>

\* ------------------------------------------------------------------------
\* Output workers: worker_send_jsonlines_to_g2_engine.
\* ------------------------------------------------------------------------

\* jsonlines_queue.get(): no timeout, so it suspends while the queue is
\* empty and never raises Empty.  The worker is next switched out at the
\* gevent.sleep(0) that opens send_jsonline_to_g2_engine.
WorkerGet(w) ==
    /\ worker_pc[w] = "get"
    /\ jsonlines_queue # <<>>
    /\ worker_jsonline' = [worker_jsonline EXCEPT ![w] = QueueGet(jsonlines_queue).item]
    /\ jsonlines_queue' = QueueGet(jsonlines_queue).rest
    /\ worker_pc' = [worker_pc EXCEPT ![w] = "send"]
    /\ UNCHANGED <<config, input_lines_function, crashes, clock_vars, counter_vars, input, input_closed, reader_pc, reader_line,
                   sink_calls, driver_vars, monitor_vars, kafka_vars>>

\* One call of g2_engine.addRecord(data_source, record_id, jsonline).
\* source: the input line (or <<kafka worker, offset>>) the record came from.
SinkCall(jsonline, result, source) ==
    [data_source |-> json_loads(jsonline)["DATA_SOURCE"],
     record_id |-> json_loads(jsonline)["RECORD_ID"],
     jsonline |-> jsonline, result |-> result, source |-> source]

\* WorkerSend that counts the record as queued instead of processed.
WorkerSend_CountsQueued(w) ==
    /\ worker_pc[w] = "send"
    /\ IF send_jsonline_raises(worker_jsonline[w].jsonline)
       THEN /\ worker_pc' = [worker_pc EXCEPT ![w] = "failed"]
            /\ UNCHANGED <<sink_calls, counter_queued_records, counter_processed_records, worker_jsonline>>
       ELSE \E result \in AddRecordResults :
            /\ sink_calls' = Append(sink_calls,
                   SinkCall(worker_jsonline[w].jsonline, result, worker_jsonline[w].line))
            /\ IF result = "ok" \/ addRecord_caught(result)
               THEN /\ counter_queued_records' = counter_queued_records + 1
                    /\ UNCHANGED counter_processed_records
                    /\ worker_pc' = [worker_pc EXCEPT ![w] = "get"]
                    /\ worker_jsonline' = [worker_jsonline EXCEPT ![w] = NoEntry]
               ELSE /\ worker_pc' = [worker_pc EXCEPT ![w] = "failed"]
                    /\ UNCHANGED <<counter_queued_records, counter_processed_records, worker_jsonline>>
    /\ UNCHANGED <<config, input_lines_function, crashes, clock_vars, counter_bad_records, jsonlines_queue,
                   input, input_closed, reader_pc, reader_line, driver_vars,
                   monitor_vars, kafka_vars>>

\* WorkerSend that counts the record twice.
WorkerSend_CountsTwice(w) ==
    /\ worker_pc[w] = "send"
    /\ IF send_jsonline_raises(worker_jsonline[w].jsonline)
       THEN /\ worker_pc' = [worker_pc EXCEPT ![w] = "failed"]
            /\ UNCHANGED <<sink_calls, counter_processed_records, worker_jsonline>>
       ELSE \E result \in AddRecordResults :
            /\ sink_calls' = Append(sink_calls,
                   SinkCall(worker_jsonline[w].jsonline, result, worker_jsonline[w].line))
            /\ IF result = "ok" \/ addRecord_caught(result)
               THEN /\ counter_processed_records' = counter_processed_records + 2
                    /\ worker_pc' = [worker_pc EXCEPT ![w] = "get"]
                    /\ worker_jsonline' = [worker_jsonline EXCEPT ![w] = NoEntry]
               ELSE /\ worker_pc' = [worker_pc EXCEPT ![w] = "failed"]
                    /\ UNCHANGED <<counter_processed_records, worker_jsonline>>
    /\ UNCHANGED <<config, input_lines_function, crashes, clock_vars, counter_queued_records, counter_bad_records, jsonlines_queue,
                   input, input_closed, reader_pc, reader_line, driver_vars,
                   monitor_vars, kafka_vars>>

\* send_jsonline_to_g2_engine(jsonline) after its gevent.sleep(0), then
\* "counter_processed_records += 1".  ValueError and KeyError are caught
\* neither there nor in the worker ("except Empty"): they end the greenlet.
WorkerSend(w) ==
    /\ worker_pc[w] = "send"
    /\ IF send_jsonline_raises(worker_jsonline[w].jsonline)
       THEN /\ worker_pc' = [worker_pc EXCEPT ![w] = "failed"]
            /\ UNCHANGED <<sink_calls, counter_processed_records, worker_jsonline>>
       ELSE \E result \in AddRecordResults :
            /\ sink_calls' = Append(sink_calls,
                   SinkCall(worker_jsonline[w].jsonline, result, worker_jsonline[w].line))
            /\ IF result = "ok" \/ addRecord_caught(result)
               THEN /\ counter_processed_records' = counter_processed_records + 1
                    /\ worker_pc' = [worker_pc EXCEPT ![w] = "get"]
                    /\ worker_jsonline' = [worker_jsonline EXCEPT ![w] = NoEntry]
               ELSE /\ worker_pc' = [worker_pc EXCEPT ![w] = "failed"]
                    /\ UNCHANGED <<counter_processed_records, worker_jsonline>>
    /\ UNCHANGED <<config, input_lines_function, crashes, clock_vars, counter_queued_records, counter_bad_records, jsonlines_queue,
                   input, input_closed, reader_pc, reader_line, driver_vars,
                   monitor_vars, kafka_vars>>

\* ------------------------------------------------------------------------
\* Kafka workers: worker_read_from_kafka.  Every worker consumes its own
\* partition; kafka_log is what the partition holds, kafka_position the
\* consumer's position in it, kafka_committed the committed offset.
\* ------------------------------------------------------------------------

\* The message values a partition can hold at offset n.
KafkaValuesAt(n) ==
    {strip(line) : line \in LinesAt(n)} \cup {Text("empty", <<>>, TRUE)}

RECURSIVE SumLen(_, _)
SumLen(f, S) ==
    IF S = {} THEN 0
    ELSE LET x == CHOOSE y \in S : TRUE IN Len(f[x]) + SumLen(f, S \ {x})

\* The number of messages produced to the topic so far.
Produced == SumLen(kafka_log, KafkaWorkers)

\* The values consumer.poll() can deliver next: the message at the
\* consumer's position, or a newly produced one.
Fetch(k) ==
    IF kafka_position[k] < Len(kafka_log[k]) THEN {kafka_log[k][kafka_position[k] + 1]}
    ELSE IF Produced < MaxMessages THEN KafkaValuesAt(Len(kafka_log[k]) + 1)
    ELSE {}

\* consumer.commit(): the committed offset becomes the consumer's position.
commit_Lost(committed, k, position) == committed

commit(committed, k, position) == [committed EXCEPT ![k] = position]

\* "If needed, modify JSON message": the inline enrichment of the loop.
kafka_modify(kafka_message_string, data_source, entity_type) ==
    LET kafka_message_dictionary == json_loads(kafka_message_string)
        d1 == IF "DATA_SOURCE" \notin DOMAIN kafka_message_dictionary
              THEN DictSet(kafka_message_dictionary, "DATA_SOURCE", data_source)
              ELSE kafka_message_dictionary
        d2 == IF "ENTITY_TYPE" \notin DOMAIN d1
              THEN DictSet(d1, "ENTITY_TYPE", entity_type)
              ELSE d1
    IN json_dumps(d2)

\* KafkaPollNothing with _PARTITION_EOF handled like any other error.
KafkaPollNothing_EofBreaks(k) ==
    /\ kafka_pc[k] = "poll"
    /\ \E kind \in {"None", "_PARTITION_EOF"} :
        /\ kafka_message' = [kafka_message EXCEPT ![k] = KafkaMessage(kind, EmptyString, 0)]
        /\ kafka_pc' = [kafka_pc EXCEPT ![k] = IF kind = "None" THEN "poll" ELSE "closed"]
    /\ UNCHANGED <<config, input_lines_function, crashes, clock_vars, counter_vars, queue_vars, sink_calls, driver_vars, monitor_vars,
                   kafka_log, kafka_position, kafka_committed>>

\* KafkaPollNothing that counts every poll as a queued record.
KafkaPollNothing_Counted(k) ==
    /\ kafka_pc[k] = "poll"
    /\ \E kind \in {"None", "_PARTITION_EOF"} :
        kafka_message' = [kafka_message EXCEPT ![k] = KafkaMessage(kind, EmptyString, 0)]
    /\ counter_queued_records' = counter_queued_records + 1
    /\ UNCHANGED <<config, input_lines_function, crashes, clock_vars, counter_processed_records,
                   counter_bad_records, queue_vars, sink_calls, driver_vars, monitor_vars,
                   kafka_log, kafka_position, kafka_committed, kafka_pc>>

\* consumer.poll(1.0) returns None, or an error with code _PARTITION_EOF:
\* "continue".
KafkaPollNothing(k) ==
    /\ kafka_pc[k] = "poll"
    /\ \E kind \in {"None", "_PARTITION_EOF"} :
        kafka_message' = [kafka_message EXCEPT ![k] = KafkaMessage(kind, EmptyString, 0)]
    /\ UNCHANGED <<config, input_lines_function, crashes, clock_vars, counter_vars, queue_vars, sink_calls, driver_vars, monitor_vars,
                   kafka_log, kafka_position, kafka_committed, kafka_pc>>

\* consumer.poll(1.0) returns any other error: "break", consumer.close().
KafkaPollError(k) ==
    /\ kafka_pc[k] = "poll"
    /\ kafka_message' = [kafka_message EXCEPT ![k] = KafkaMessage("error", EmptyString, 0)]
    /\ kafka_pc' = [kafka_pc EXCEPT ![k] = "closed"]
    /\ UNCHANGED <<config, input_lines_function, crashes, clock_vars, counter_vars, queue_vars, sink_calls, driver_vars, monitor_vars,
                   kafka_log, kafka_position, kafka_committed>>

\* KafkaPollMessage that counts a malformed message as a bad record.
KafkaPollMessage_CountsBad(k) ==
    /\ kafka_pc[k] = "poll"
    /\ \E value \in Fetch(k) :
        LET offset == kafka_position[k] + 1
            kafka_message_string == strip(value)
        IN
        /\ kafka_log' = [kafka_log EXCEPT ![k] =
               IF kafka_position[k] < Len(@) THEN @ ELSE Append(@, value)]
        /\ kafka_position' = [kafka_position EXCEPT ![k] = offset]
        /\ IF ~Truthy(kafka_message_string)
           THEN \* "if not kafka_message_string: continue"
                /\ kafka_message' = [kafka_message EXCEPT ![k] =
                       KafkaMessage("message", kafka_message_string, offset)]
                /\ UNCHANGED <<counter_queued_records, counter_bad_records, kafka_committed, kafka_pc>>
           ELSE IF json_loads_raises(kafka_message_string)
           THEN \* "except: ... consumer.commit() ... continue"
                /\ counter_queued_records' = counter_queued_records + 1
                /\ kafka_message' = [kafka_message EXCEPT ![k] =
                       KafkaMessage("message", kafka_message_string, offset)]
                /\ kafka_committed' = commit(kafka_committed, k, offset)
                /\ counter_bad_records' = counter_bad_records + 1
                /\ UNCHANGED kafka_pc
           ELSE /\ counter_queued_records' = counter_queued_records + 1
                /\ kafka_message' = [kafka_message EXCEPT ![k] =
                       KafkaMessage("message",
                           kafka_modify(kafka_message_string, config.data_source, config.entity_type),
                           offset)]
                /\ kafka_pc' = [kafka_pc EXCEPT ![k] = "send"]
                /\ UNCHANGED <<counter_bad_records, kafka_committed>>
    /\ UNCHANGED <<config, input_lines_function, crashes, clock_vars, counter_processed_records, queue_vars,
                   sink_calls, driver_vars, monitor_vars>>

\* consumer.poll(1.0) returns a message: the iteration up to the
\* gevent.sleep(0) that opens send_jsonline_to_g2_engine.
KafkaPollMessage(k) ==
    /\ kafka_pc[k] = "poll"
    /\ \E value \in Fetch(k) :
        LET offset == kafka_position[k] + 1
            kafka_message_string == strip(value)
        IN
        /\ kafka_log' = [kafka_log EXCEPT ![k] =
               IF kafka_position[k] < Len(@) THEN @ ELSE Append(@, value)]
        /\ kafka_position' = [kafka_position EXCEPT ![k] = offset]
        /\ IF ~Truthy(kafka_message_string)
           THEN \* "if not kafka_message_string: continue"
                /\ kafka_message' = [kafka_message EXCEPT ![k] =
                       KafkaMessage("message", kafka_message_string, offset)]
                /\ UNCHANGED <<counter_queued_records, kafka_committed, kafka_pc>>
           ELSE IF json_loads_raises(kafka_message_string)
           THEN \* "except: ... consumer.commit() ... continue"
                /\ counter_queued_records' = counter_queued_records + 1
                /\ kafka_message' = [kafka_message EXCEPT ![k] =
                       KafkaMessage("message", kafka_message_string, offset)]
                /\ kafka_committed' = commit(kafka_committed, k, offset)
                /\ UNCHANGED kafka_pc
           ELSE /\ counter_queued_records' = counter_queued_records + 1
                /\ kafka_message' = [kafka_message EXCEPT ![k] =
                       KafkaMessage("message",
                           kafka_modify(kafka_message_string, config.data_source, config.entity_type),
                           offset)]
                /\ kafka_pc' = [kafka_pc EXCEPT ![k] = "send"]
                /\ UNCHANGED kafka_committed
    /\ UNCHANGED <<config, input_lines_function, crashes, clock_vars, counter_processed_records, counter_bad_records, queue_vars,
                   sink_calls, driver_vars, monitor_vars>>

\* KafkaSend that commits only when the Sink accepted (commit-after-success).
KafkaSend_CommitOnSuccess(k) ==
    /\ kafka_pc[k] = "send"
    /\ IF send_jsonline_raises(kafka_message[k].jsonline)
       THEN /\ kafka_pc' = [kafka_pc EXCEPT ![k] = "failed"]
            /\ UNCHANGED <<sink_calls, counter_processed_records, kafka_committed>>
       ELSE \E result \in AddRecordResults :
            /\ sink_calls' = Append(sink_calls,
                   SinkCall(kafka_message[k].jsonline, result, <<k, kafka_message[k].line>>))
            /\ counter_processed_records' = counter_processed_records + 1
            /\ kafka_committed' = IF result = "ok"
                                  THEN commit(kafka_committed, k, kafka_position[k])
                                  ELSE kafka_committed
            /\ kafka_pc' = [kafka_pc EXCEPT ![k] = "poll"]
    /\ UNCHANGED <<config, input_lines_function, crashes, clock_vars, counter_queued_records,
                   counter_bad_records, queue_vars,
                   driver_vars, monitor_vars, kafka_log, kafka_position, kafka_message>>

\* KafkaSend with the commit moved before the send (commit-before-attempt).
KafkaSend_CommitFirst(k) ==
    /\ kafka_pc[k] = "send"
    /\ kafka_committed' = commit(kafka_committed, k, kafka_position[k])
    /\ IF send_jsonline_raises(kafka_message[k].jsonline)
       THEN /\ kafka_pc' = [kafka_pc EXCEPT ![k] = "failed"]
            /\ UNCHANGED <<sink_calls, counter_processed_records>>
       ELSE \E result \in AddRecordResults :
            /\ sink_calls' = Append(sink_calls,
                   SinkCall(kafka_message[k].jsonline, result, <<k, kafka_message[k].line>>))
            /\ counter_processed_records' = counter_processed_records + 1
            /\ kafka_pc' = [kafka_pc EXCEPT ![k] = "poll"]
    /\ UNCHANGED <<config, input_lines_function, crashes, clock_vars, counter_queued_records, counter_bad_records, queue_vars,
                   driver_vars, monitor_vars, kafka_log, kafka_position, kafka_message>>

\* send_jsonline_to_g2_engine(kafka_message_string) after its
\* gevent.sleep(0), "counter_processed_records += 1", consumer.commit().
\* A KeyError of send_jsonline_to_g2_engine ends the greenlet before both.
KafkaSend(k) ==
    /\ kafka_pc[k] = "send"
    /\ IF send_jsonline_raises(kafka_message[k].jsonline)
       THEN /\ kafka_pc' = [kafka_pc EXCEPT ![k] = "failed"]
            /\ UNCHANGED <<sink_calls, counter_processed_records, kafka_committed>>
       ELSE \E result \in AddRecordResults :
            /\ sink_calls' = Append(sink_calls,
                   SinkCall(kafka_message[k].jsonline, result, <<k, kafka_message[k].line>>))
            /\ IF result = "ok" \/ addRecord_caught(result)
               THEN /\ counter_processed_records' = counter_processed_records + 1
                    /\ kafka_committed' = commit(kafka_committed, k, kafka_position[k])
                    /\ kafka_pc' = [kafka_pc EXCEPT ![k] = "poll"]
               ELSE /\ kafka_pc' = [kafka_pc EXCEPT ![k] = "failed"]
                    /\ UNCHANGED <<counter_processed_records, kafka_committed>>
    /\ UNCHANGED <<config, input_lines_function, crashes, clock_vars, counter_queued_records, counter_bad_records, queue_vars,
                   driver_vars, monitor_vars, kafka_log, kafka_position, kafka_message>>

\* ------------------------------------------------------------------------
\* Monitor: worker_monitor.
\* ------------------------------------------------------------------------

\* MonitorTick that starts a new interval by zeroing the counters.
MonitorTick_ResetsCounters ==
    /\ monitor_pc = "running"
    /\ last_processed_records' = counter_processed_records
    /\ last_queued_records' = counter_queued_records
    /\ counter_processed_records' = 0
    /\ counter_queued_records' = 0
    /\ UNCHANGED <<config, input_lines_function, crashes, clock_vars, counter_bad_records, queue_vars, sink_calls, driver_vars,
                   monitor_pc, kafka_vars>>

\* One pass of the sleep-monitor loop: sample the counters and keep them
\* as the baseline of the next pass.
MonitorTick ==
    /\ monitor_pc = "running"
    /\ last_processed_records' = counter_processed_records
    /\ last_queued_records' = counter_queued_records
    /\ UNCHANGED <<config, input_lines_function, crashes, clock_vars, counter_vars, queue_vars, sink_calls, driver_vars,
                   monitor_pc, kafka_vars>>

\* ------------------------------------------------------------------------
\* Drivers: do_stdin, do_url, do_kafka.
\* ------------------------------------------------------------------------

\* Greenlet.ready(): the greenlet has finished, by return or by exception.
Ready(pc) == pc \in {"done", "failed", "closed", "killed"}

\* A join that returns while greenlets of the list are still running.
DriverJoinAll_NoWait ==
    /\ driver_pc = "joinall"
    /\ driver_pc' = "kill_monitor"
    /\ UNCHANGED <<config, input_lines_function, crashes, clock_vars, counter_vars, queue_vars,
                   sink_calls, read_from_worker, monitor_vars, kafka_vars>>

\* gevent.joinall(send_to_g2_engine_workers) / gevent.joinall(kafka_workers)
\* returns once every greenlet of the list is ready.
DriverJoinAll ==
    /\ driver_pc = "joinall"
    /\ \A w \in Workers : Ready(worker_pc[w])
    /\ \A k \in KafkaWorkers : Ready(kafka_pc[k])
    /\ driver_pc' = "kill_monitor"
    /\ UNCHANGED <<config, input_lines_function, crashes, clock_vars, counter_vars, queue_vars, sink_calls, read_from_worker,
                   monitor_vars, kafka_vars>>

\* monitor_worker.kill()
DriverKillMonitor ==
    /\ driver_pc = "kill_monitor"
    /\ monitor_pc' = "killed"
    /\ driver_pc' = IF config.subcommand = "kafka" THEN "done" ELSE "kill_readers"
    /\ read_from_worker' = IF config.subcommand = "stdin" THEN 1 ELSE 0
    /\ UNCHANGED <<config, input_lines_function, crashes, clock_vars, counter_vars, queue_vars, sink_calls,
                   last_processed_records, last_queued_records, kafka_vars>>

\* Greenlet.kill() of a reader: a reader that is not ready gets GreenletExit.
Kill(pcs, p) == [pcs EXCEPT ![p] = IF Ready(@) THEN @ ELSE "killed"]

\* do_stdin: "for read_from_worker in read_from_workers: read_from_worker.kill()"
StdinKillReader ==
    /\ driver_pc = "kill_readers"
    /\ config.subcommand = "stdin"
    /\ reader_pc' = Kill(reader_pc, read_from_worker)
    /\ IF read_from_worker < config.number_of_input_workers
       THEN /\ read_from_worker' = read_from_worker + 1
            /\ UNCHANGED driver_pc
       ELSE /\ read_from_worker' = 0
            /\ driver_pc' = "done"
    /\ UNCHANGED <<config, input_lines_function, crashes, clock_vars, counter_vars, jsonlines_queue, input, input_closed, reader_line,
                   worker_pc, worker_jsonline, sink_calls, monitor_vars, kafka_vars>>

\* do_url: url_reader_worker.kill(), then "for read_from_worker in
\* read_from_workers", a name do_url never binds: NameError.
UrlKillReader ==
    /\ driver_pc = "kill_readers"
    /\ config.subcommand = "url"
    /\ reader_pc' = Kill(reader_pc, 1)
    /\ driver_pc' = "failed"
    /\ UNCHANGED <<config, input_lines_function, crashes, clock_vars, counter_vars, jsonlines_queue, input, input_closed, reader_line,
                   worker_pc, worker_jsonline, sink_calls, read_from_worker,
                   monitor_vars, kafka_vars>>

\* ------------------------------------------------------------------------
\* The pipeline.
\* ------------------------------------------------------------------------

ReaderStep ==
    \E p \in Readers : StdinIteration(p) \/ FileStart(p) \/ FileIteration(p) \/ PutResumes(p)

WorkerStep ==
    \E w \in Workers : WorkerGet(w) \/ WorkerSend(w)

KafkaStep ==
    \E k \in KafkaWorkers :
        KafkaPollNothing(k) \/ KafkaPollError(k) \/ KafkaPollMessage(k) \/ KafkaSend(k)

DriverStep ==
    DriverJoinAll \/ DriverKillMonitor \/ StdinKillReader \/ UrlKillReader

\* do_stdin and do_url.
Init == InitOf({"stdin", "url"})

Next == ReaderStep \/ WorkerStep \/ DriverStep \/ MonitorTick

Spec == Init /\ [][Next]_vars

\* do_kafka.
InitKafka == InitOf({"kafka"})

NextKafka == KafkaStep \/ DriverJoinAll \/ DriverKillMonitor \/ MonitorTick

SpecKafka == InitKafka /\ [][NextKafka]_vars

\* do_kafka with a producer that writes to the topic, and with the process
\* killed and started again: the broker keeps the log and the committed
\* offsets of the consumer group, the Sink keeps what it was sent, and the
\* new process starts as InitPipeline does, each consumer at the committed
\* offset of its partition.
KafkaProduce(k) ==
    /\ Produced < MaxMessages
    /\ \E value \in KafkaValuesAt(Len(kafka_log[k]) + 1) :
        kafka_log' = [kafka_log EXCEPT ![k] = Append(@, value)]
    /\ UNCHANGED <<config, input_lines_function, crashes, clock_vars, counter_vars, queue_vars,
                   sink_calls, driver_vars, monitor_vars,
                   kafka_position, kafka_committed, kafka_pc, kafka_message>>

KafkaStart(calls) ==
    /\ sink_calls' = calls
    /\ counter_queued_records' = 0
    /\ counter_processed_records' = 0
    /\ counter_bad_records' = 0
    /\ driver_pc' = "joinall"
    /\ monitor_pc' = "running"
    /\ last_processed_records' = 0
    /\ last_queued_records' = 0
    /\ kafka_position' = kafka_committed
    /\ kafka_pc' = [k \in KafkaWorkers |-> "poll"]
    /\ kafka_message' = [k \in KafkaWorkers |-> KafkaMessage("start", EmptyString, 0)]
    /\ UNCHANGED <<config, input_lines_function, clock_vars, queue_vars, read_from_worker,
                   kafka_log, kafka_committed>>

KafkaRestart(calls) ==
    /\ crashes < MaxCrashes
    /\ crashes' = crashes + 1
    /\ KafkaStart(calls)

\* The process is killed while its greenlets are at a switch point.
KafkaCrash == KafkaRestart(sink_calls)

\* do_kafka has returned, the process has ended, and it is started again.
KafkaRerun ==
    /\ driver_pc = "done"
    /\ KafkaStart(sink_calls)
    /\ UNCHANGED crashes

\* The process is killed inside an iteration, after addRecord has returned
\* and before consumer.commit().
KafkaSendCrash(k) ==
    /\ kafka_pc[k] = "send"
    /\ ~send_jsonline_raises(kafka_message[k].jsonline)
    /\ \E result \in AddRecordResults :
        KafkaRestart(Append(sink_calls,
            SinkCall(kafka_message[k].jsonline, result, <<k, kafka_message[k].line>>)))

NextKafkaCrash ==
    \/ NextKafka
    \/ KafkaCrash
    \/ KafkaRerun
    \/ \E k \in KafkaWorkers : KafkaProduce(k) \/ KafkaSendCrash(k)

\* One worker and its partition; the defaults for DATA_SOURCE and
\* ENTITY_TYPE are left unset.
InitKafkaCrash ==
    /\ InitKafka
    /\ config.number_of_input_workers = 1
    /\ config.data_source = None
    /\ config.entity_type = None

SpecKafkaCrash == InitKafkaCrash /\ [][NextKafkaCrash]_vars

\* gevent runs every greenlet that can run, a poll returns a message when
\* the partition has one past the consumer's position, and a process that
\* has ended is started again.
FairSpecKafkaCrash ==
    /\ SpecKafkaCrash
    /\ WF_vars(DriverJoinAll)
    /\ WF_vars(DriverKillMonitor)
    /\ WF_vars(KafkaRerun)
    /\ \A k \in 1..MaxInputWorkers :
        /\ WF_vars(k \in KafkaWorkers /\ KafkaPollMessage(k))
        /\ WF_vars(k \in KafkaWorkers /\ KafkaSend(k))

\* do_url up to its call of the factory, for any input_url.
InputUrls ==
    {UrlNone} \cup {Url(head, colon, tail) : head \in SchemeTexts \cup PathTexts, colon \in BOOLEAN,
                                          tail \in {"", "//host/in.json", "/tmp/in.json"}}

InitSource ==
    /\ config \in {[c EXCEPT !.input_url = input_url] :
                       c \in {d \in Configurations : d.subcommand = "url"},
                       input_url \in InputUrls}
    /\ input_lines_function = "unset"
    /\ InitPipeline

\* input_lines_function = create_input_lines_function_factory(config)
CreateInputLinesFunction ==
    /\ input_lines_function = "unset"
    /\ input_lines_function' = create_input_lines_function_factory(config)
    /\ UNCHANGED <<config, counter_vars, queue_vars, sink_calls, driver_vars, monitor_vars,
                   kafka_vars, crashes, clock_vars>>

NextSource == CreateInputLinesFunction

SpecSource == InitSource /\ [][NextSource]_vars

\* worker_monitor with its clock and its reports, beside a pool of output
\* workers of any size.  While the monitor sleeps the rest of the program
\* runs: the clock advances, records are counted, workers end.  Only the
\* number of ended workers matters to the monitor, so they end in the order
\* of the list.
Periods == {30, 60}

Counts == {0, 100, 219, 220}

InitMonitor ==
    /\ config \in {[c EXCEPT !.number_of_output_workers = pool] :
                       c \in {d \in Configurations :
                                 /\ d.subcommand = "stdin"
                                 /\ d.data_source = None /\ d.entity_type = None
                                 /\ d.number_of_input_workers = 1
                                 /\ d.number_of_output_workers = 1
                                 /\ d.queue_maxsize = 1},
                       pool \in 1..MaxPool}
    /\ input_lines_function = "unset"
    /\ InitPipeline

\* gevent.sleep(sleep_time)
MonitorSleep ==
    /\ monitor_pc = "running"
    /\ \E period \in Periods :
        /\ now + period <= MaxTime
        /\ now' = now + period
    /\ counter_queued_records' \in {c \in Counts : c >= counter_queued_records}
    /\ counter_processed_records' \in
           {c \in Counts : c >= counter_processed_records /\ c <= counter_queued_records'}
    /\ \E ended \in 0..config.number_of_output_workers :
        /\ \A w \in Workers : Ready(worker_pc[w]) => w <= ended
        /\ worker_pc' = [w \in Workers |-> IF w <= ended THEN "failed" ELSE worker_pc[w]]
    /\ monitor_pc' = "awake"
    /\ UNCHANGED <<config, input_lines_function, crashes, counter_bad_records, jsonlines_queue,
                   input, input_closed, reader_pc, reader_line, worker_jsonline, sink_calls,
                   driver_vars, last_processed_records, last_queued_records, kafka_vars,
                   last_time, monitor_log>>

\* "active_workers = len(workers)", then one less for each ready worker.
RECURSIVE active_workers_loop(_, _, _)
active_workers_loop(workers, worker, active_workers) ==
    IF worker > Len(workers) THEN active_workers
    ELSE active_workers_loop(workers, worker + 1,
             IF Ready(workers[worker]) THEN active_workers - 1 ELSE active_workers)

\* The test for warning 502 with "at most half" in place of "less than half".
running_out_of_workers_AtHalf(active_workers, len_workers) ==
    2 * active_workers <= len_workers

\* "(active_workers / float(len(workers))) < 0.5": a quotient of two small
\* integers is below one half as a float exactly when it is as a fraction.
running_out_of_workers(active_workers, len_workers) ==
    2 * active_workers < len_workers

\* int(records / seconds) for records >= 0 and seconds > 0.
int_rate(records, seconds) == records \div seconds

\* The statistics of one pass, from the baseline given.
monitor_stats(baseline_processed_records, baseline_queued_records) ==
    LET workers == [w \in 1..config.number_of_output_workers |-> worker_pc[w]]
        active_workers == active_workers_loop(workers, 1, Len(workers))
        uptime == now - start_time
        elapsed_time == now - last_time
        total_processed_records == counter_processed_records
        elapsed_processed_records == total_processed_records - baseline_processed_records
        total_queued_records == counter_queued_records
        elapsed_queued_records == total_queued_records - baseline_queued_records
    IN [logged |-> TRUE,
        warning |-> running_out_of_workers(active_workers, Len(workers)),
        processed_records |-> total_processed_records,
        queued_records |-> total_queued_records,
        queue_size |-> Len(jsonlines_queue),
        rate_processed_interval |-> int_rate(elapsed_processed_records, elapsed_time),
        rate_processed_total |-> int_rate(total_processed_records, uptime),
        rate_queued_interval |-> int_rate(elapsed_queued_records, elapsed_time),
        rate_queued_total |-> int_rate(total_queued_records, uptime),
        uptime |-> uptime,
        workers_total |-> Len(workers),
        workers_active |-> active_workers]

\* MonitorPass with rates always taken from zero.
MonitorPass_NoBaseline ==
    /\ monitor_pc = "awake"
    /\ monitor_log' = monitor_stats(0, 0)
    /\ last_processed_records' = counter_processed_records
    /\ last_queued_records' = counter_queued_records
    /\ last_time' = now
    /\ monitor_pc' = "running"
    /\ UNCHANGED <<config, input_lines_function, crashes, counter_vars, queue_vars, sink_calls,
                   driver_vars, kafka_vars, now>>

\* One pass of the loop after the sleep: count the active workers, warn,
\* compute and log the rates, store the values for the next pass.
MonitorPass ==
    /\ monitor_pc = "awake"
    /\ monitor_log' = monitor_stats(last_processed_records, last_queued_records)
    /\ last_processed_records' = counter_processed_records
    /\ last_queued_records' = counter_queued_records
    /\ last_time' = now
    /\ monitor_pc' = "running"
    /\ UNCHANGED <<config, input_lines_function, crashes, counter_vars, queue_vars, sink_calls,
                   driver_vars, kafka_vars, now>>

NextMonitor == MonitorSleep \/ MonitorPass

SpecMonitor == InitMonitor /\ [][NextMonitor]_vars

\* The two enrichers on one line: the line is read, output_line_function
\* puts its entry in the queue, and the inline enrichment of the Kafka loop
\* makes its message string of the same text.  The lines are the JSON
\* objects over the four keys, written in either key order, with or without
\* line terminator, and a line that is not JSON.
Reverse(seq) == [i \in 1..Len(seq) |-> seq[Len(seq) + 1 - i]]

KeyValue(key) ==
    CASE key = "DATA_SOURCE" -> "S"
      [] key = "ENTITY_TYPE" -> "T"
      [] key = "NAME" -> "x"
      [] OTHER -> RecordId(1)

JsonLine(order, keys, eol) ==
    LET ks == SelectSeq(order, LAMBDA key : key \in keys)
    IN Text("json", [i \in 1..Len(ks) |-> <<ks[i], KeyValue(ks[i])>>], eol)

EnricherLines ==
    {JsonLine(order, keys, eol) : order \in {KeyOrder, Reverse(KeyOrder)},
                                  keys \in SUBSET {KeyOrder[i] : i \in 1..Len(KeyOrder)},
                                  eol \in BOOLEAN}
    \cup {LineJunk}

InitEnricher ==
    /\ InitKafka
    /\ config.number_of_input_workers = 1

\* readline() / kafka_message.value()
EnricherRead ==
    /\ input = <<>>
    /\ \E line \in EnricherLines : input' = <<line>>
    /\ UNCHANGED <<config, input_lines_function, crashes, clock_vars, counter_vars,
                   jsonlines_queue, input_closed, reader_pc, reader_line, worker_pc,
                   worker_jsonline, sink_calls, driver_vars, monitor_vars, kafka_vars>>

\* output_line_function(line)
EnricherPut ==
    /\ input # <<>>
    /\ jsonlines_queue = <<>>
    /\ ~output_line_function_raises(config, input[1])
    /\ jsonlines_queue' = <<Entry(output_line_function(config, input[1]), 1)>>
    /\ UNCHANGED <<config, input_lines_function, crashes, clock_vars, counter_vars,
                   input, input_closed, reader_pc, reader_line, worker_pc,
                   worker_jsonline, sink_calls, driver_vars, monitor_vars, kafka_vars>>

\* "kafka_message_string = kafka_message.value().strip()" ... "If needed,
\* modify JSON message"
EnricherModify ==
    /\ input # <<>>
    /\ kafka_message[1].kind = "start"
    /\ ~json_loads_raises(strip(input[1]))
    /\ kafka_message' = [kafka_message EXCEPT ![1] =
           KafkaMessage("message",
               kafka_modify(strip(input[1]), config.data_source, config.entity_type), 1)]
    /\ UNCHANGED <<config, input_lines_function, crashes, clock_vars, counter_vars,
                   queue_vars, sink_calls, driver_vars, monitor_vars,
                   kafka_log, kafka_position, kafka_committed, kafka_pc>>

NextEnricher == EnricherRead \/ EnricherPut \/ EnricherModify

SpecEnricher == InitEnricher /\ [][NextEnricher]_vars

\* Every pipeline variant.
\* ------------------------------------------------------------------------
\* do_test: the input is read in the driver's own task, log workers drain
\* the queue.
\* ------------------------------------------------------------------------

\* input_lines_function(config, output_line_function) called by do_test
\* with no input URL, one iteration of input_lines_from_stdin: readline,
\* count, then output_line_function(line) or the end of the loop, after
\* which do_test goes on to gevent.joinall(jsonlines_workers).  An
\* exception of output_line_function leaves do_test.
TestIteration(p) ==
    /\ config.subcommand = "test"
    /\ driver_pc = "input"
    /\ reader_pc[p] = "read"
    /\ \E line \in ReadLine :
        /\ Consume(line)
        /\ counter_queued_records' = counter_queued_records + 1
        /\ IF ~Truthy(line)
           THEN /\ reader_pc' = [reader_pc EXCEPT ![p] = "done"]
                /\ driver_pc' = "joinall"
                /\ UNCHANGED <<jsonlines_queue, reader_line>>
           ELSE IF output_line_function_raises(config, line)
           THEN /\ reader_pc' = [reader_pc EXCEPT ![p] = "failed"]
                /\ driver_pc' = "failed"
                /\ reader_line' = [reader_line EXCEPT ![p] = Entry(line, LineNumber(line))]
                /\ UNCHANGED jsonlines_queue
           ELSE IF QueueFull
           THEN /\ reader_pc' = [reader_pc EXCEPT ![p] = "put"]
                /\ reader_line' = [reader_line EXCEPT ![p] =
                       Entry(output_line_function(config, line), LineNumber(line))]
                /\ UNCHANGED <<jsonlines_queue, driver_pc>>
           ELSE /\ jsonlines_queue' = Append(jsonlines_queue,
                       Entry(output_line_function(config, line), LineNumber(line)))
                /\ UNCHANGED <<reader_pc, reader_line, driver_pc>>
    /\ UNCHANGED <<config, input_lines_function, crashes, clock_vars, counter_processed_records,
                   counter_bad_records, worker_pc, worker_jsonline, sink_calls,
                   read_from_worker, monitor_vars, kafka_vars>>

\* worker_send_jsonlines_to_log, one iteration: jsonlines_queue.get(timeout=1)
\* returns the oldest entry, which is logged.
LogWorkerGet(w) ==
    /\ config.subcommand = "test"
    /\ driver_pc \in {"input", "joinall"}
    /\ worker_pc[w] = "get"
    /\ jsonlines_queue # <<>>
    /\ worker_jsonline' = [worker_jsonline EXCEPT ![w] = QueueGet(jsonlines_queue).item]
    /\ jsonlines_queue' = QueueGet(jsonlines_queue).rest
    /\ UNCHANGED <<config, input_lines_function, crashes, clock_vars, counter_vars, input,
                   input_closed, reader_pc, reader_line, worker_pc, sink_calls, driver_vars,
                   monitor_vars, kafka_vars>>

\* worker_send_jsonlines_to_log: the queue stayed empty for the second of
\* get(timeout=1), Empty is caught and the worker returns.
LogWorkerTimeout(w) ==
    /\ config.subcommand = "test"
    /\ driver_pc \in {"input", "joinall"}
    /\ worker_pc[w] = "get"
    /\ jsonlines_queue = <<>>
    /\ worker_pc' = [worker_pc EXCEPT ![w] = "done"]
    /\ UNCHANGED <<config, input_lines_function, crashes, clock_vars, counter_vars,
                   jsonlines_queue, input, input_closed, reader_pc, reader_line,
                   worker_jsonline, sink_calls, driver_vars, monitor_vars, kafka_vars>>

\* gevent.joinall(jsonlines_workers) of do_test returns once every log
\* worker is ready, and do_test ends.
TestJoinAll ==
    /\ config.subcommand = "test"
    /\ driver_pc = "joinall"
    /\ \A w \in Workers : Ready(worker_pc[w])
    /\ driver_pc' = "done"
    /\ UNCHANGED <<config, input_lines_function, crashes, clock_vars, counter_vars, queue_vars,
                   sink_calls, read_from_worker, monitor_vars, kafka_vars>>

\* do_test with no input URL.
InitTest ==
    /\ config \in [subcommand : {"test"},
                    input_url : {UrlNone},
                    data_source : {None, "D"},
                    entity_type : {None},
                    number_of_input_workers : {1},
                    number_of_output_workers : 1..MaxOutputWorkers,
                    queue_maxsize : 1..MaxQueueSize]
    /\ input_lines_function = create_input_lines_function_factory(config)
    /\ InitPipeline

NextTest ==
    \/ \E p \in Readers : TestIteration(p) \/ PutResumes(p)
    \/ \E w \in Workers : LogWorkerGet(w) \/ LogWorkerTimeout(w)
    \/ TestJoinAll

SpecTest == InitTest /\ [][NextTest]_vars

\* do_url reading LongFile: one reader, no defaults, a queue of one
\* entry, every number of output workers.
InitBacklog ==
    /\ config \in [subcommand : {"url"},
                    input_url : {LongFile},
                    data_source : {None},
                    entity_type : {None},
                    number_of_input_workers : {1},
                    number_of_output_workers : 1..MaxOutputWorkers,
                    queue_maxsize : {1}]
    /\ input_lines_function = create_input_lines_function_factory(config)
    /\ InitPipeline

\* No output worker ends on well-formed lines, so do_url stays in
\* gevent.joinall(g2_engine_workers) and has no step.
NextBacklog ==
    \/ \E p \in Readers : FileStart(p) \/ FileIteration(p) \/ PutResumes(p)
    \/ WorkerStep
    \/ MonitorTick

SpecBacklog == InitBacklog /\ [][NextBacklog]_vars

InitAll == InitOf({"stdin", "url", "kafka"})

NextAll == Next \/ KafkaStep

SpecAll == InitAll /\ [][NextAll]_vars

\* ------------------------------------------------------------------------
\* Properties.
\* ------------------------------------------------------------------------

\* The well-formed records: JSON objects with DATA_SOURCE and RECORD_ID.
WellFormed(line) ==
    /\ ~json_loads_raises(line)
    /\ {"DATA_SOURCE", "RECORD_ID"} \subseteq DOMAIN json_loads(line)

\* The sources of the calls the Sink has received.
Submitted == {sink_calls[i].source : i \in 1..Len(sink_calls)}

\* Readers, output workers and drivers have no step left to take.
PipelineStep == ReaderStep \/ WorkerStep \/ DriverStep
Quiescent == ~ENABLED PipelineStep

\* C1: an output worker that has dequeued an entry that is not JSON, or
\* that lacks DATA_SOURCE or RECORD_ID, makes no Sink call for it and goes
\* back to the queue for the next entry: the worker task does not end.
C1_MalformedEntryDropped ==
    [][\A w \in Workers :
        (/\ worker_pc[w] = "send"
         /\ send_jsonline_raises(worker_jsonline[w].jsonline)
         /\ worker_pc'[w] # "send")
        => (sink_calls' = sink_calls /\ worker_pc'[w] = "get")]_vars

C3_MalformedLineSkipped ==
    create_output_line_function_factory(config) # 1 =>
        /\ \A p \in Readers : reader_pc[p] # "failed"
        /\ \A i \in 1..Len(jsonlines_queue) : ~json_loads_raises(jsonlines_queue[i].jsonline)
        /\ \A i \in 1..Len(sink_calls) : ~json_loads_raises(input[sink_calls[i].source])

\* C4: once every reader is at end of input, the queue is empty and no
\* reader, worker or driver has a step left, every output worker has
\* exited and the driver has finished.
C4_WorkersExitAfterDrain ==
    (/\ Quiescent
     /\ \A p \in Readers : reader_pc[p] = "done"
     /\ jsonlines_queue = <<>>)
    => (/\ \A w \in Workers : Ready(worker_pc[w])
        /\ driver_pc = "done")

\* C5: when no reader, worker or driver has a step left, every well-formed
\* line that was read has been submitted to the Sink with its RECORD_ID.
C5_NoLineLost ==
    Quiescent =>
        \A n \in 1..Len(input) :
            WellFormed(input[n]) =>
                \E i \in 1..Len(sink_calls) :
                    /\ sink_calls[i].source = n
                    /\ sink_calls[i].record_id = RecordId(n)

\* The lines that were put in the queue: those read and no longer in the
\* hand of a reader.
Put == (1..Len(input)) \ {reader_line[p].line : p \in Readers}

\* The lines of the entries output workers hold.
Held(w) == IF worker_jsonline[w] = NoEntry THEN {} ELSE {worker_jsonline[w].line}

\* C6: the Sink has received at most as many calls as entries were put in
\* the queue, no entry was submitted twice, no two workers hold the same
\* entry, and an entry a worker holds is neither in the queue nor held
\* after its submission.
C6_AtMostOnce ==
    /\ Len(sink_calls) <= Cardinality(Put)
    /\ Submitted \subseteq Put
    /\ \A i, j \in 1..Len(sink_calls) : i # j => sink_calls[i].source # sink_calls[j].source
    /\ \A v, w \in Workers : v # w => Held(v) \cap Held(w) = {}
    /\ \A w \in Workers :
        /\ Held(w) \subseteq Put
        /\ Held(w) \cap Submitted = {}
        /\ Held(w) \cap {jsonlines_queue[i].line : i \in 1..Len(jsonlines_queue)} = {}

\* C6 witness: two workers hold two entries at the same time.
C6_Witness ==
    \E v, w \in Workers :
        /\ v # w
        /\ worker_pc[v] = "send"
        /\ worker_pc[w] = "send"
        /\ worker_jsonline[v].line # worker_jsonline[w].line

C8_Fifo ==
    (Cardinality(Readers) = 1 /\ Cardinality(Workers) = 1) =>
        \A i, j \in 1..Len(sink_calls) :
            i < j => sink_calls[i].source < sink_calls[j].source

\* C8 witness: one reader, one worker, two records submitted.
C8_Witness ==
    /\ Cardinality(Readers) = 1
    /\ Cardinality(Workers) = 1
    /\ Len(sink_calls) >= 2

\* The value of the message at an offset, as the loop sees it.
MessageString(k, offset) == strip(kafka_log[k][offset])

\* C9: a Kafka worker that polls a non-empty message that is not JSON adds
\* one to queuedCount, leaves processedCount alone, makes no Sink call,
\* commits the offset and is back at the poll; no Sink call is ever made
\* for such a message.
C9_InvalidMessage ==
    /\ [][\A k \in KafkaWorkers :
            (/\ kafka_position'[k] = kafka_position[k] + 1
             /\ Truthy(strip(kafka_log'[k][kafka_position'[k]]))
             /\ json_loads_raises(strip(kafka_log'[k][kafka_position'[k]])))
            => /\ counter_queued_records' = counter_queued_records + 1
               /\ counter_processed_records' = counter_processed_records
               /\ sink_calls' = sink_calls
               /\ kafka_committed'[k] = kafka_position'[k]
               /\ kafka_pc'[k] = "poll"]_vars
    /\ [](\A k \in KafkaWorkers : \A n \in 1..Len(kafka_log[k]) :
            json_loads_raises(MessageString(k, n)) => <<k, n>> \notin Submitted)

\* C9 witness: an invalid message was polled and its offset is committed.
C9_Witness ==
    \E k \in KafkaWorkers :
        /\ kafka_position[k] >= 1
        /\ MessageString(k, kafka_position[k]) = strip(LineJunk)
        /\ kafka_committed[k] = kafka_position[k]
        /\ kafka_pc[k] = "poll"

\* C10: every committed offset of a message that parses as JSON belongs to
\* a message that was handed to the Sink.
C10_CommitAfterSubmit ==
    \A k \in KafkaWorkers : \A n \in 1..kafka_committed[k] :
        ~json_loads_raises(MessageString(k, n)) => <<k, n>> \in Submitted

\* C10 witness: the offset of a JSON message is committed.
C10_Witness ==
    \E k \in KafkaWorkers :
        /\ kafka_committed[k] >= 1
        /\ ~json_loads_raises(MessageString(k, kafka_committed[k]))

\* C12: a Kafka worker that holds a JSON message without RECORD_ID drops
\* it as one record: it makes no Sink call, commits the offset of the
\* message and is back at the poll.
C12_MissingKeyDropped ==
    [][\A k \in KafkaWorkers :
        (/\ kafka_pc[k] = "send"
         /\ "RECORD_ID" \notin DOMAIN json_loads(kafka_message[k].jsonline)
         /\ kafka_pc'[k] # "send")
        => /\ sink_calls' = sink_calls
           /\ kafka_committed'[k] = kafka_position[k]
           /\ kafka_pc'[k] = "poll"]_vars

\* C14: a poll that returns nothing or end-of-partition leaves the worker
\* at the poll; a worker's loop ends only by its own poll error (or by an
\* exception of its own send), and the step that ends it changes nothing
\* of any other worker, of the log, of the counters or of the Sink.
C14_PollErrors ==
    [][\A k \in KafkaWorkers :
        /\ (/\ kafka_message'[k] # kafka_message[k]
            /\ kafka_message'[k].kind \in {"None", "_PARTITION_EOF"})
           => kafka_pc'[k] = "poll"
        /\ (kafka_pc[k] # "closed" /\ kafka_pc'[k] = "closed")
           => /\ kafka_pc[k] = "poll"
              /\ kafka_message'[k].kind = "error"
              /\ \A j \in KafkaWorkers \ {k} :
                    /\ kafka_pc'[j] = kafka_pc[j]
                    /\ kafka_message'[j] = kafka_message[j]
              /\ UNCHANGED <<kafka_log, kafka_position, kafka_committed,
                             counter_vars, sink_calls>>
        /\ (kafka_message'[k].kind = "error" /\ kafka_message[k].kind # "error")
           => kafka_pc'[k] = "closed"]_vars

\* C14 witness: worker 1 has ended on a poll error before consuming
\* anything, worker 2 has polled, submitted and committed a message, and is
\* polling again.
C14_Witness ==
    /\ 2 \in KafkaWorkers
    /\ kafka_pc[1] = "closed"
    /\ kafka_position[1] = 0
    /\ kafka_pc[2] = "poll"
    /\ kafka_message[2].kind = "_PARTITION_EOF"
    /\ kafka_committed[2] >= 1
    /\ <<2, 1>> \in Submitted

\* C15: the three counters start at zero and no step of any pipeline
\* variant makes one of them smaller.
C15_CountersMonotonic ==
    /\ counter_queued_records = 0
    /\ counter_processed_records = 0
    /\ counter_bad_records = 0
    /\ [][/\ counter_queued_records' >= counter_queued_records
          /\ counter_processed_records' >= counter_processed_records
          /\ counter_bad_records' >= counter_bad_records]_vars

\* C15 witness: records were counted as queued and as processed and the
\* monitor has sampled the counters.
C15_Witness ==
    /\ counter_queued_records >= 2
    /\ counter_processed_records >= 1
    /\ last_queued_records >= 1

\* C16: when every stdin reader has ended at end of input, queuedCount is
\* the number of lines that were read.
C16_StdinCountsLines ==
    (/\ config.subcommand = "stdin"
     /\ \A p \in Readers : reader_pc[p] = "done")
    => counter_queued_records = Len(input)

\* C20: the input source the factory returns is decided by the input URL
\* alone: none or empty gives the stdin source, scheme http or https the URL
\* source, scheme file or no scheme the file source, and any other scheme
\* gives no source at all.
C20_SourceSelection ==
    input_lines_function # "unset" =>
        LET input_url == config.input_url
            scheme == urlparse_scheme(input_url)
        IN
        /\ NoInputUrl(input_url) <=> input_lines_function = "input_lines_from_stdin"
        /\ (~NoInputUrl(input_url) /\ scheme \in {"http", "https"})
               <=> input_lines_function = "input_lines_from_url"
        /\ (~NoInputUrl(input_url) /\ scheme \in {"file", ""})
               <=> input_lines_function = "input_lines_from_file"
        /\ (~NoInputUrl(input_url) /\ scheme \notin {"http", "https", "file", ""})
               <=> input_lines_function = None
        /\ input_url = Url("HTTP", TRUE, "//host/in.json")
               => input_lines_function = "input_lines_from_url"
        /\ input_url = Url("/tmp/in", FALSE, "")
               => input_lines_function = "input_lines_from_file"

\* C20 witness: for an ftp URL the factory has returned no source.
C20_Witness ==
    /\ config.input_url = Url("ftp", TRUE, "//host/in.json")
    /\ input_lines_function = None

\* The message at offset n of the partition of worker k is in the topic
\* and is well-formed.
InTopic(k, n) ==
    /\ k \in KafkaWorkers
    /\ n <= Len(kafka_log[k])
    /\ WellFormed(kafka_log[k][n])

\* That message has been submitted, or a poll error has ended the loop of
\* worker k.
SubmittedOrClosed(k, n) ==
    /\ k \in KafkaWorkers
    /\ <<k, n>> \in Submitted \/ kafka_pc[k] = "closed"

\* C11: with the process killed at any point and started again, every
\* well-formed message of the topic is eventually submitted to the Sink,
\* unless a poll error has ended the loop of the worker of its partition.
C11_AtLeastOnce ==
    \A k \in 1..MaxInputWorkers : \A n \in 1..MaxMessages :
        [](InTopic(k, n) => <>SubmittedOrClosed(k, n))

C19_MonitorCancelledAfterJoin ==
    /\ monitor_pc = "killed" =>
          /\ \A w \in Workers : Ready(worker_pc[w])
          /\ \A k \in KafkaWorkers : Ready(kafka_pc[k])
    /\ driver_pc \in {"done", "failed"} => monitor_pc = "killed"

\* C19 witness: do_stdin has finished with two output workers, the monitor
\* is cancelled, and it had sampled the counters while the pool was running.
C19_Witness ==
    /\ config.subcommand = "stdin"
    /\ config.number_of_output_workers = 2
    /\ driver_pc = "done"
    /\ monitor_pc = "killed"
    /\ last_queued_records >= 1

\* The output workers that have not ended.
Alive == {w \in Workers : ~Ready(worker_pc[w])}

\* C17: a report carries the starvation warning exactly when fewer than
\* half of the pool's workers are alive: at 4 of 10 it does, at 5 of 10 it
\* does not.
C17_StarvationWarning ==
    (monitor_log.logged /\ monitor_pc = "running") =>
        /\ monitor_log.warning <=> 2 * Cardinality(Alive) < Cardinality(Workers)
        /\ monitor_log.workers_active = Cardinality(Alive)
        /\ (Cardinality(Workers) = 10 /\ Cardinality(Alive) = 4) => monitor_log.warning
        /\ (Cardinality(Workers) = 10 /\ Cardinality(Alive) = 5) => ~monitor_log.warning

\* C17 witness: a report with the warning for a pool of 10 with 4 alive.
C17_Witness ==
    /\ monitor_log.logged
    /\ monitor_pc = "running"
    /\ Cardinality(Workers) = 10
    /\ Cardinality(Alive) = 4
    /\ monitor_log.warning

\* rate is the whole number of records per second: rate <= records/seconds < rate + 1.
IsRate(rate, records, seconds) ==
    /\ rate * seconds <= records
    /\ records < (rate + 1) * seconds

Enqueued == input # <<>> /\ jsonlines_queue # <<>>

\* The line of SpecEnricher has gone through the enrichment of the Kafka loop.
Modified == input # <<>> /\ kafka_message[1].kind = "message"

NoDefaults == config.data_source = None /\ config.entity_type = None

Enriched(record, line, key, default) ==
    /\ key \in DOMAIN record
    /\ record[key] = IF key \in DOMAIN json_loads(line) THEN json_loads(line)[key] ELSE default

\* C22: with a default for DATA_SOURCE (ENTITY_TYPE) configured, the
\* enriched record has the line's own value for the key when the line has
\* the key and the default when it has not, in the queue path and in the
\* Kafka loop.
C22_DefaultNeverOverwrites ==
    /\ Enqueued =>
        LET record == json_loads(jsonlines_queue[1].jsonline) IN
        /\ config.data_source # None
               => Enriched(record, input[1], "DATA_SOURCE", config.data_source)
        /\ config.entity_type # None
               => Enriched(record, input[1], "ENTITY_TYPE", config.entity_type)
    /\ Modified =>
        LET record == json_loads(kafka_message[1].jsonline) IN
        /\ config.data_source # None
               => Enriched(record, input[1], "DATA_SOURCE", config.data_source)
        /\ config.entity_type # None
               => Enriched(record, input[1], "ENTITY_TYPE", config.entity_type)

\* C22 witness: only the DATA_SOURCE default is configured and a line that
\* has its own DATA_SOURCE went through both enrichers.
C22_Witness ==
    /\ config.data_source = "D"
    /\ config.entity_type = None
    /\ Enqueued
    /\ Modified
    /\ "DATA_SOURCE" \in DOMAIN json_loads(input[1])
    /\ json_loads(jsonlines_queue[1].jsonline)["DATA_SOURCE"] = "S"

\* The record has the keys the configured defaults stand for, and every
\* key of the line with the line's value.
HasDefaultsAndKeys(record, line) ==
    /\ config.data_source # None => "DATA_SOURCE" \in DOMAIN record
    /\ config.entity_type # None => "ENTITY_TYPE" \in DOMAIN record
    /\ \A key \in DOMAIN json_loads(line) :
          key \in DOMAIN record /\ record[key] = json_loads(line)[key]

\* C23: every entry that reaches the queue and every record of the Kafka
\* loop has DATA_SOURCE if that default is configured, ENTITY_TYPE if that
\* default is configured, and all keys of the line with their values.
C23_DefaultsPresent ==
    /\ Enqueued => HasDefaultsAndKeys(json_loads(jsonlines_queue[1].jsonline), input[1])
    /\ Modified => HasDefaultsAndKeys(json_loads(kafka_message[1].jsonline), input[1])

\* C23 witness: only the ENTITY_TYPE default is configured and a line with
\* NAME and RECORD_ID alone went through both enrichers.
C23_Witness ==
    /\ config.data_source = None
    /\ config.entity_type = "E"
    /\ Enqueued
    /\ Modified
    /\ DOMAIN json_loads(input[1]) = {"NAME", "RECORD_ID"}
    /\ json_loads(jsonlines_queue[1].jsonline)["ENTITY_TYPE"] = "E"

\* C30: for every JSON line and every combination of defaults, the record
\* of the Kafka loop is the record the queue-path enricher puts in the
\* queue.
C30_PathsAgree ==
    (Enqueued /\ Modified)
    => json_loads(kafka_message[1].jsonline) = json_loads(jsonlines_queue[1].jsonline)

\* C24: a poll that returns nothing, end of partition, or a message whose
\* value is empty after strip() changes none of the three counters and
\* makes no Sink call.
C24_NothingCounted ==
    [][\A k \in KafkaWorkers :
        (/\ kafka_message'[k] # kafka_message[k]
         /\ \/ kafka_message'[k].kind \in {"None", "_PARTITION_EOF"}
            \/ kafka_message'[k].kind = "message" /\ ~Truthy(kafka_message'[k].jsonline))
        => UNCHANGED <<counter_vars, sink_calls>>]_vars

\* C24 witness: worker 1 has polled an empty message and then the end of
\* its partition, and nothing is counted or submitted.
C24_Witness ==
    /\ kafka_position[1] = 1
    /\ ~Truthy(strip(kafka_log[1][1]))
    /\ kafka_message[1].kind = "_PARTITION_EOF"
    /\ counter_queued_records = 0
    /\ sink_calls = <<>>

\* The message at offset n of worker k's partition is counted as queued:
\* its value is not empty after strip().
Counted(k, n) == Truthy(strip(kafka_log[k][n]))

\* The offset of the last counted message worker k has polled, 0 if none.
LastCounted(k) ==
    LET counted == {n \in 1..kafka_position[k] : Counted(k, n)}
    IN IF counted = {} THEN 0 ELSE CHOOSE n \in counted : \A m \in counted : m <= n

\* C25: a worker that is at its poll has committed the last counted
\* message it polled, and every commit moves the committed offset forward
\* over exactly one counted message, to the offset of that message: the
\* commits of a worker follow its counted messages one by one in poll order.
C25_CommitsInPollOrder ==
    /\ [](\A k \in KafkaWorkers :
            kafka_pc[k] = "poll" => kafka_committed[k] = LastCounted(k))
    /\ [][\A k \in KafkaWorkers :
            kafka_committed'[k] # kafka_committed[k]
            => /\ kafka_committed'[k] > kafka_committed[k]
               /\ kafka_committed'[k] <= Len(kafka_log'[k])
               /\ Truthy(strip(kafka_log'[k][kafka_committed'[k]]))
               /\ Cardinality({n \in (kafka_committed[k] + 1)..kafka_committed'[k] :
                                  Truthy(strip(kafka_log'[k][n]))}) = 1]_vars

\* C25 witness: worker 1 has polled a malformed and a well-formed message
\* and has committed both.
C25_Witness ==
    /\ kafka_pc[1] = "poll"
    /\ kafka_committed[1] = 2
    /\ json_loads_raises(strip(kafka_log[1][1]))
    /\ WellFormed(kafka_log[1][2])

\* C26: a step of an input worker changes neither processedCount nor
\* badCount, nor anything of the output workers or the Sink; a step of an
\* output worker changes neither queuedCount nor badCount, nor anything of
\* the input workers; a monitor pass changes no counter and not the queue.
C26_OneWriter ==
    [][/\ (reader_pc' # reader_pc \/ reader_line' # reader_line \/ input' # input
              \/ input_closed' # input_closed)
          => UNCHANGED <<counter_processed_records, counter_bad_records, worker_pc,
                         worker_jsonline, sink_calls>>
       /\ (worker_pc' # worker_pc \/ worker_jsonline' # worker_jsonline)
          => UNCHANGED <<counter_queued_records, counter_bad_records, reader_pc,
                         reader_line, input, input_closed>>
       /\ (last_processed_records' # last_processed_records
              \/ last_queued_records' # last_queued_records)
          => UNCHANGED <<counter_vars, jsonlines_queue>>]_vars

\* C26 witness: lines were counted as queued, a record was counted as
\* processed with an entry still in the queue, and the monitor has sampled.
C26_Witness ==
    /\ counter_queued_records = 2
    /\ counter_processed_records = 1
    /\ last_processed_records = 1
    /\ jsonlines_queue # <<>>

\* C27: with the file or URL source, queuedCount - processedCount never
\* exceeds queue capacity + number of output workers + 1.
C27_InFlightBound ==
    config.subcommand = "url"
    => counter_queued_records - counter_processed_records
           <= config.queue_maxsize + config.number_of_output_workers + 1

\* C28: when the driver is about to kill its input workers, every input
\* worker has reached end of input and the queue is empty.
C28_KillAfterDrain ==
    driver_pc = "kill_readers"
    => /\ \A p \in Readers : reader_pc[p] = "done"
       /\ jsonlines_queue = <<>>

\* C29: processedCount never exceeds queuedCount, and outside the Kafka
\* pipeline their difference is at least the length of the queue.
C29_ProcessedAtMostQueued ==
    /\ counter_processed_records <= counter_queued_records
    /\ config.subcommand # "kafka"
       => counter_queued_records - counter_processed_records >= Len(jsonlines_queue)

\* C29 witness: a record is processed and the queue holds an entry.
C29_Witness ==
    /\ counter_processed_records >= 1
    /\ jsonlines_queue # <<>>
    /\ counter_queued_records - counter_processed_records = Len(jsonlines_queue)

\* C27 witness: the reader is suspended in put() on a counted line, the
\* queue is full and every output worker holds a dequeued entry:
\* queuedCount - processedCount is exactly capacity + workers + 1.
C27_Witness ==
    /\ config.subcommand = "url"
    /\ reader_pc[1] = "put"
    /\ Len(jsonlines_queue) = config.queue_maxsize
    /\ \A w \in Workers : worker_pc[w] = "send"
    /\ config.number_of_output_workers = 2
    /\ counter_queued_records - counter_processed_records
           = config.queue_maxsize + config.number_of_output_workers + 1

\* C31: config['counter_bad_records'] is 0 in every reachable state of
\* do_stdin, do_url and do_kafka: nothing writes it after get_configuration.
C31_BadCountZero == counter_bad_records = 0

\* C31 witness: a Kafka worker has committed a malformed message and then
\* submitted a record the Sink rejected, and the bad-record count is 0.
C31_Witness ==
    /\ config.subcommand = "kafka"
    /\ kafka_committed[1] >= 1
    /\ json_loads_raises(strip(kafka_log[1][1]))
    /\ \E i \in 1..Len(sink_calls) : sink_calls[i].result # "ok"
    /\ counter_bad_records = 0

\* C32: in do_test every line put in the queue is taken by a log worker
\* before the run ends, and the driver's task is never left in put() on a
\* full queue with no log worker running to make room.
C32_TestDrains ==
    config.subcommand = "test"
    => /\ driver_pc = "done" => jsonlines_queue = <<>>
       /\ ~(/\ reader_pc[1] = "put"
            /\ QueueFull
            /\ \A w \in Workers : Ready(worker_pc[w]))

====
